---- MODULE Spec2Model ----
(***************************************************************************)
(* The two scaffolding scripts of the repository, p.py and oauth.py, run   *)
(* against a model of the filesystem.  A path is the tuple of its          *)
(* components relative to the working directory (<<>> is the working       *)
(* directory itself), so os.path.join is concatenation.                    *)
(***************************************************************************)
EXTENDS Integers, Sequences, FiniteSets, TLC

VARIABLES
    prog,       \* which script runs: "p" (p.py) or "oauth" (oauth.py)
    folders,    \* p.py: the local list `folders`
    files,      \* p.py: the items of the local dict `files`, in order
    fs,         \* the filesystem: path -> node
    denied,     \* paths whose creation / opening the OS refuses (EACCES)
    writeFail,  \* files whose write the OS refuses (ENOSPC, EIO)
    pc,         \* index of the statement being executed
    phase,      \* position inside a `with open(...)` statement
    handles,    \* paths of the file objects that are open
    out,        \* lines printed by the script
    exc,        \* the exception raised (type, path), NoExc when none
    status,     \* "running", "done" (fell off the end), "raised"
    run,        \* number of the current invocation of the script
    called,     \* directories os.makedirs was called for in this run
    attempted,  \* files open() was called for in this run
    fs0,        \* the filesystem before the first run
    prev        \* the filesystem when the previous run ended

vars == <<prog, folders, files, fs, denied, writeFail, pc, phase, handles,
          out, exc, status, run, called, attempted, fs0, prev>>

-----------------------------------------------------------------------------
(* Bounds of the model *)

\* how many times the script is invoked on the same filesystem
MaxRuns == 2

-----------------------------------------------------------------------------
(* Paths *)

None == "None"

\* no path: the working directory is never a declared entry
NoPath == <<>>

\* no exception is pending
NoExc == [type |-> None, path |-> NoPath]

join(a, b) == a \o b

Parent(p) == SubSeq(p, 1, Len(p) - 1)

Prefixes(p) == { SubSeq(p, 1, k) : k \in 1..Len(p) }

IsUnder(p, d) == Len(p) > Len(d) /\ SubSeq(p, 1, Len(d)) = d

-----------------------------------------------------------------------------
(* Filesystem nodes *)

Absent == [kind |-> "absent", content |-> ""]

Dir == [kind |-> "dir", content |-> ""]

File(c) == [kind |-> "file", content |-> c]

\* the working directory always exists; a path outside the universe is absent
NodeAt(f, p) == IF p = <<>> THEN Dir ELSE IF p \in DOMAIN f THEN f[p] ELSE Absent

exists(f, p) == NodeAt(f, p).kind # "absent"

isdir(f, p) == NodeAt(f, p).kind = "dir"

Ok(f) == [fs |-> f, err |-> None]

Err(f, e) == [fs |-> f, err |-> e]

-----------------------------------------------------------------------------
(* The OS calls the scripts make *)

\* os.mkdir(name): one directory, parent must exist
mkdir(f, dn, name) ==
    IF exists(f, name) THEN Err(f, "FileExistsError")
    ELSE IF ~exists(f, Parent(name)) THEN Err(f, "FileNotFoundError")
    ELSE IF ~isdir(f, Parent(name)) THEN Err(f, "NotADirectoryError")
    ELSE IF name \in dn THEN Err(f, "PermissionError")
    ELSE Ok([f EXCEPT ![name] = Dir])

\* os.makedirs(name, exist_ok): missing ancestors first, then the leaf; an
\* OSError of the leaf mkdir is swallowed when exist_ok and the leaf is a directory
RECURSIVE makedirs(_, _, _, _)
makedirs(f, dn, name, exist_ok) ==
    LET head == Parent(name)
        pre == IF head # <<>> /\ ~exists(f, head)
               THEN makedirs(f, dn, head, exist_ok)
               ELSE Ok(f)
    IN  IF pre.err \notin {None, "FileExistsError"} THEN pre
        ELSE LET r == mkdir(pre.fs, dn, name)
             IN  IF r.err # None /\ ~(exist_ok /\ isdir(pre.fs, name))
                 THEN r
                 ELSE Ok(r.fs)

\* a plausible slip: exist_ok left at its default False
create_directory_strict(f, dn, path) == makedirs(f, dn, path, FALSE)

\* a plausible slip: os.mkdir instead of os.makedirs (no ancestors created)
create_directory_flat(f, dn, path) ==
    LET r == mkdir(f, dn, path)
    IN  IF r.err # None /\ ~isdir(f, path) THEN r ELSE Ok(r.fs)

\* a plausible slip: the directory is recreated (emptied) when it exists
create_directory_fresh(f, dn, path) ==
    LET wiped == [q \in DOMAIN f |-> IF IsUnder(q, path) THEN Absent ELSE f[q]]
    IN  makedirs(wiped, dn, path, TRUE)

\* os.makedirs(path, exist_ok=True)
create_directory(f, dn, path) == makedirs(f, dn, path, TRUE)

\* a plausible slip: mode 'a' instead of 'w' (an existing file is not truncated)
open_a(f, dn, path) ==
    IF isdir(f, path) THEN Err(f, "IsADirectoryError")
    ELSE IF ~exists(f, Parent(path)) THEN Err(f, "FileNotFoundError")
    ELSE IF ~isdir(f, Parent(path)) THEN Err(f, "NotADirectoryError")
    ELSE IF path \in dn THEN Err(f, "PermissionError")
    ELSE Ok([f EXCEPT ![path] = File(NodeAt(f, path).content)])

\* open(path, 'w'): creates the file or truncates it
open_w(f, dn, path) ==
    IF isdir(f, path) THEN Err(f, "IsADirectoryError")
    ELSE IF ~exists(f, Parent(path)) THEN Err(f, "FileNotFoundError")
    ELSE IF ~isdir(f, Parent(path)) THEN Err(f, "NotADirectoryError")
    ELSE IF path \in dn THEN Err(f, "PermissionError")
    ELSE Ok([f EXCEPT ![path] = File("")])

\* f.write(content) on the file opened at path
write(f, wf, path, content) ==
    IF path \in wf THEN Err(f, "OSError")
    ELSE Ok([f EXCEPT ![path] = File(f[path].content \o content)])

-----------------------------------------------------------------------------
(* Statements.  A script is the sequence of its statements. *)

\* os.makedirs(path, exist_ok=True) / create_directory(path)
MkOp(path) == [op |-> "makedirs", path |-> path, content |-> "", hasWrite |-> FALSE]

\* p.py: with open(full_path, 'w') as f: f.write(content)
WriteOp(path, content) == [op |-> "create", path |-> path, content |-> content, hasWrite |-> TRUE]

\* oauth.py: create_file(path), i.e. with open(path, 'w') as f: pass
TouchOp(path) == [op |-> "create", path |-> path, content |-> "", hasWrite |-> FALSE]

\* the closing print(...) of either script
PrintOp == [op |-> "print", path |-> <<>>, content |-> "", hasWrite |-> FALSE]

-----------------------------------------------------------------------------
(* p.py *)

base_path_p == <<"plugins", "analytics-plugin">>

DeclaredFolders ==
    << <<"src">>,
       <<"src", "components">>,
       <<"src", "services">>,
       <<"src", "types">> >>

DeclaredFiles ==
    << [path |-> <<"package.json">>, content |-> ""],
       [path |-> <<"plugin.config.json">>, content |-> ""],
       [path |-> <<"src", "index.ts">>, content |-> ""],
       [path |-> <<"src", "components", "AnalyticsDashboard.tsx">>, content |-> ""],
       [path |-> <<"src", "components", "AnalyticsSettings.tsx">>, content |-> ""],
       [path |-> <<"src", "components", "AnalyticsWidget.tsx">>, content |-> ""],
       [path |-> <<"src", "services", "tracker.ts">>, content |-> ""],
       [path |-> <<"src", "services", "aggregator.ts">>, content |-> ""],
       [path |-> <<"src", "services", "reports.ts">>, content |-> ""],
       [path |-> <<"src", "types", "analytics.ts">>, content |-> ""] >>

\* a plausible slip: the file loop placed before the folder loop
create_analytics_plugin_structure_files_first(base_path, fo, fi) ==
    <<MkOp(base_path)>>
    \o [i \in 1..Len(fi) |-> WriteOp(join(base_path, fi[i].path), fi[i].content)]
    \o [i \in 1..Len(fo) |-> MkOp(join(base_path, fo[i]))]
    \o <<PrintOp>>

\* the statements create_analytics_plugin_structure(base_path) executes
create_analytics_plugin_structure(base_path, fo, fi) ==
    <<MkOp(base_path)>>
    \o [i \in 1..Len(fo) |-> MkOp(join(base_path, fo[i]))]
    \o [i \in 1..Len(fi) |-> WriteOp(join(base_path, fi[i].path), fi[i].content)]
    \o <<PrintOp>>

-----------------------------------------------------------------------------
(* oauth.py *)

base_path_oauth == <<"apps", "web", "modules", "s3-storage-module">>

config_path == join(base_path_oauth, <<"config">>)

services_path == join(base_path_oauth, <<"services">>)

providers_path == join(base_path_oauth, <<"providers">>)

utils_path == join(base_path_oauth, <<"utils">>)

middleware_path == join(base_path_oauth, <<"middleware">>)

admin_path == join(base_path_oauth, <<"admin">>)

api_path == join(base_path_oauth, <<"api">>)

hooks_path == join(base_path_oauth, <<"hooks">>)

\* the module-level statements of oauth.py, lines 14 to 89
OauthScript ==
    LET base_path == base_path_oauth
    IN  << MkOp(base_path),
       TouchOp(join(base_path, <<"package.json">>)),
       TouchOp(join(base_path, <<"manifest.json">>)),
       TouchOp(join(base_path, <<"index.js">>)),
       TouchOp(join(base_path, <<"install.js">>)),
       TouchOp(join(base_path, <<"uninstall.js">>)),
       TouchOp(join(base_path, <<"README.md">>)),
       TouchOp(join(base_path, <<"icon.png">>)),
       TouchOp(join(base_path, <<"screenshot1.png">>)),
       TouchOp(join(base_path, <<"screenshot2.png">>)),
       MkOp(config_path),
       TouchOp(join(config_path, <<"providers.json">>)),
       TouchOp(join(config_path, <<"defaults.json">>)),
       MkOp(services_path),
       TouchOp(join(services_path, <<"s3-storage-service.js">>)),
       TouchOp(join(services_path, <<"provider-factory.js">>)),
       TouchOp(join(services_path, <<"file-manager.js">>)),
       TouchOp(join(services_path, <<"url-service.js">>)),
       MkOp(providers_path),
       TouchOp(join(providers_path, <<"aws-s3.js">>)),
       TouchOp(join(providers_path, <<"vultr-storage.js">>)),
       TouchOp(join(providers_path, <<"cloudflare-r2.js">>)),
       TouchOp(join(providers_path, <<"digitalocean-spaces.js">>)),
       TouchOp(join(providers_path, <<"linode-storage.js">>)),
       TouchOp(join(providers_path, <<"base-provider.js">>)),
       MkOp(utils_path),
       TouchOp(join(utils_path, <<"validators.js">>)),
       TouchOp(join(utils_path, <<"file-utils.js">>)),
       TouchOp(join(utils_path, <<"mime-helper.js">>)),
       TouchOp(join(utils_path, <<"error-handler.js">>)),
       MkOp(middleware_path),
       TouchOp(join(middleware_path, <<"storage-interceptor.js">>)),
       TouchOp(join(middleware_path, <<"upload-handler.js">>)),
       MkOp(admin_path),
       TouchOp(join(admin_path, <<"settings-panel.js">>)),
       TouchOp(join(admin_path, <<"storage-stats.js">>)),
       TouchOp(join(admin_path, <<"migration-tool.js">>)),
       TouchOp(join(admin_path, <<"test-connection.js">>)),
       MkOp(api_path),
       TouchOp(join(api_path, <<"upload.js">>)),
       TouchOp(join(api_path, <<"delete.js">>)),
       TouchOp(join(api_path, <<"migrate.js">>)),
       TouchOp(join(api_path, <<"test-connection.js">>)),
       TouchOp(join(api_path, <<"settings.js">>)),
       MkOp(hooks_path),
       TouchOp(join(hooks_path, <<"media-upload.js">>)),
       TouchOp(join(hooks_path, <<"media-delete.js">>)),
       TouchOp(join(hooks_path, <<"url-generation.js">>)),
       PrintOp >>

-----------------------------------------------------------------------------
(* The running script *)

ScriptOf(pg, fo, fi) ==
    IF pg = "p" THEN create_analytics_plugin_structure(base_path_p, fo, fi)
    ELSE OauthScript

BaseOf(pg) == IF pg = "p" THEN base_path_p ELSE base_path_oauth

Script == ScriptOf(prog, folders, files)

\* the directories and files a script declares
DirsOf(s) == { s[i].path : i \in { j \in 1..Len(s) : s[j].op = "makedirs" } }

FilesOf(s) == { s[i].path : i \in { j \in 1..Len(s) : s[j].op = "create" } }

ContentOf(s, p) == s[CHOOSE i \in 1..Len(s) : s[i].op = "create" /\ s[i].path = p].content

DeclaredOf(pg) ==
    LET s == ScriptOf(pg, DeclaredFolders, DeclaredFiles)
    IN  DirsOf(s) \cup FilesOf(s)

\* entries under the base path that no script declares
ExtraFile(pg) == join(BaseOf(pg), <<"notes.txt">>)

ExtraDir(pg) == join(BaseOf(pg), <<"old">>)

ExtraNested(pg) == join(ExtraDir(pg), <<"keep.txt">>)

Extras(pg) == {ExtraFile(pg), ExtraDir(pg), ExtraNested(pg)}

Universe(pg) ==
    UNION { Prefixes(p) : p \in DeclaredOf(pg) } \cup Extras(pg)

-----------------------------------------------------------------------------
(* The filesystems a run may start from *)

Scenarios == {"fresh", "base", "dirs", "full"}

\* scen: what exists already; ex: undeclared entries exist under the base path;
\* c: a declared path occupied by a node of the other kind, or NoPath
InitFS(pg, scen, ex, c) ==
    LET s == ScriptOf(pg, DeclaredFolders, DeclaredFiles)
        anc == Prefixes(BaseOf(pg))
        layer(p) ==
            IF scen = "fresh" THEN Absent
            ELSE IF p \in anc THEN Dir
            ELSE IF ex /\ p \in {ExtraFile(pg), ExtraNested(pg)} THEN File("x")
            ELSE IF ex /\ p = ExtraDir(pg) THEN Dir
            ELSE IF scen \in {"dirs", "full"} /\ p \in DirsOf(s) THEN Dir
            ELSE IF scen = "full" /\ p \in FilesOf(s) THEN File("x")
            ELSE Absent
        node(p) ==
            IF c = NoPath THEN layer(p)
            ELSE IF p = c THEN (IF p \in FilesOf(s) THEN Dir ELSE File("x"))
            ELSE IF IsUnder(c, p) THEN Dir
            ELSE IF IsUnder(p, c) /\ c \notin FilesOf(s) THEN Absent
            ELSE layer(p)
    IN  [p \in Universe(pg) |-> node(p)]

\* every node that exists lies in a directory
WellFormed(f) == \A p \in DOMAIN f : exists(f, p) => isdir(f, Parent(p))

\* the empty set and the singletons of S
AtMostOne(S) == {{}} \cup { {x} : x \in S }

\* faulty: the run may meet one fault (a refused path, a path of the wrong kind,
\* a refused write); otherwise every operation is permitted
InitWith(pg, fo, fi, faulty) ==
    \E scen \in Scenarios, ex \in BOOLEAN,
       c \in (IF faulty THEN DeclaredOf(pg) \cup Prefixes(BaseOf(pg)) ELSE {}) \cup {NoPath},
       dn \in AtMostOne(IF faulty THEN DeclaredOf(pg) \cup Prefixes(BaseOf(pg)) ELSE {}),
       wf \in AtMostOne(IF faulty /\ pg = "p" THEN FilesOf(ScriptOf(pg, fo, fi)) ELSE {}) :
        /\ (scen = "fresh" => ~ex)
        \* one kind of fault at a time
        /\ Cardinality({k \in {"c", "dn", "wf"} :
                          \/ k = "c" /\ c # NoPath
                          \/ k = "dn" /\ dn # {}
                          \/ k = "wf" /\ wf # {}}) <= 1
        /\ prog = pg
        /\ folders = fo
        /\ files = fi
        /\ fs = InitFS(pg, scen, ex, c)
        /\ fs0 = InitFS(pg, scen, ex, c)
        /\ prev = InitFS(pg, scen, ex, c)
        /\ denied = dn
        /\ writeFail = wf
        /\ pc = 1
        /\ phase = "idle"
        /\ handles = {}
        /\ out = <<>>
        /\ exc = NoExc
        /\ status = "running"
        /\ run = 1
        /\ called = {}
        /\ attempted = {}

\* the scripts as written
Init == \E pg \in {"p", "oauth"} : InitWith(pg, DeclaredFolders, DeclaredFiles, TRUE)

-----------------------------------------------------------------------------
(* Statements of a run *)

Stmt == Script[pc]

Raise(e, p) ==
    /\ status' = "raised"
    /\ exc' = [type |-> e, path |-> p]

\* os.makedirs(..., exist_ok=True): p.py lines 27 and 31, oauth.py create_directory
MakeDirs ==
    /\ status = "running" /\ phase = "idle"
    /\ Stmt.op = "makedirs"
    /\ LET r == create_directory(fs, denied, Stmt.path)
       IN  /\ fs' = r.fs
           /\ called' = called \cup {Stmt.path}
           /\ IF r.err = None
              THEN /\ pc' = pc + 1
                   /\ UNCHANGED <<status, exc>>
              ELSE /\ Raise(r.err, Stmt.path)
                   /\ UNCHANGED pc
    /\ UNCHANGED <<prog, folders, files, denied, writeFail, phase, handles, out,
                   run, attempted, fs0, prev>>

\* open(path, 'w') entering the with statement: p.py line 36, oauth.py line 7
Open ==
    /\ status = "running" /\ phase = "idle"
    /\ Stmt.op = "create"
    /\ LET r == open_w(fs, denied, Stmt.path)
       IN  /\ fs' = r.fs
           /\ attempted' = attempted \cup {Stmt.path}
           /\ IF r.err = None
              THEN /\ handles' = handles \cup {Stmt.path}
                   /\ phase' = "opened"
                   /\ UNCHANGED <<status, exc>>
              ELSE /\ Raise(r.err, Stmt.path)
                   /\ UNCHANGED <<handles, phase>>
    /\ UNCHANGED <<prog, folders, files, denied, writeFail, pc, out, run, called,
                   fs0, prev>>

\* f.write(content): p.py line 37; an error leaves the with block by the exception
Write ==
    /\ status = "running" /\ phase = "opened"
    /\ Stmt.hasWrite
    /\ LET r == write(fs, writeFail, Stmt.path, Stmt.content)
       IN  /\ fs' = r.fs
           /\ IF r.err = None
              THEN /\ phase' = "written"
                   /\ UNCHANGED exc
              ELSE /\ phase' = "unwinding"
                   /\ exc' = [type |-> r.err, path |-> Stmt.path]
    /\ UNCHANGED <<prog, folders, files, denied, writeFail, pc, handles, out,
                   status, run, called, attempted, fs0, prev>>

\* a plausible slip: open() without with, the file closed only after a
\* successful write
WithExitLeak ==
    /\ status = "running"
    /\ \/ phase = "written"
       \/ phase = "opened" /\ ~Stmt.hasWrite
       \/ phase = "unwinding"
    /\ IF phase = "unwinding"
       THEN /\ status' = "raised"
            /\ UNCHANGED <<pc, handles>>
       ELSE /\ pc' = pc + 1
            /\ handles' = handles \ {Stmt.path}
            /\ UNCHANGED status
    /\ phase' = "idle"
    /\ UNCHANGED <<prog, folders, files, fs, denied, writeFail, out, exc, run,
                   called, attempted, fs0, prev>>

\* leaving the with statement closes the file, on the normal path and on the
\* exception path: p.py lines 36-37, oauth.py lines 7-8
WithExit ==
    /\ status = "running"
    /\ \/ phase = "written"
       \/ phase = "opened" /\ ~Stmt.hasWrite
       \/ phase = "unwinding"
    /\ handles' = handles \ {Stmt.path}
    /\ IF phase = "unwinding"
       THEN /\ status' = "raised"
            /\ UNCHANGED pc
       ELSE /\ pc' = pc + 1
            /\ UNCHANGED status
    /\ phase' = "idle"
    /\ UNCHANGED <<prog, folders, files, fs, denied, writeFail, out, exc, run,
                   called, attempted, fs0, prev>>

\* the closing print: p.py line 39, oauth.py line 89; the script then ends
PrintSuccess ==
    /\ status = "running" /\ phase = "idle"
    /\ Stmt.op = "print"
    /\ out' = Append(out, "created successfully")
    /\ status' = "done"
    /\ UNCHANGED <<prog, folders, files, fs, denied, writeFail, pc, phase, handles,
                   exc, run, called, attempted, fs0, prev>>

\* the script is invoked again (p.py line 41-42, python oauth.py): a new process
Rerun ==
    /\ status \in {"done", "raised"}
    /\ run < MaxRuns
    /\ run' = run + 1
    /\ prev' = fs
    /\ pc' = 1
    /\ phase' = "idle"
    /\ handles' = {}
    /\ out' = <<>>
    /\ exc' = NoExc
    /\ status' = "running"
    /\ called' = {}
    /\ attempted' = {}
    /\ UNCHANGED <<prog, folders, files, fs, denied, writeFail, fs0>>

Next ==
    \/ MakeDirs
    \/ Open
    \/ Write
    \/ WithExit
    \/ PrintSuccess
    \/ Rerun

Spec == Init /\ [][Next]_vars

-----------------------------------------------------------------------------
(* p.py with the sibling entries of its two literals permuted *)

Orders(s) ==
    { [i \in 1..Len(s) |-> s[f[i]]] :
        f \in { g \in [1..Len(s) -> 1..Len(s)] : \A i, j \in 1..Len(s) : g[i] = g[j] => i = j } }

Rotations(s) ==
    { [i \in 1..Len(s) |-> s[((i + k - 1) % Len(s)) + 1]] : k \in 0..(Len(s) - 1) }

Reverse(s) == [i \in 1..Len(s) |-> s[Len(s) + 1 - i]]

InitPerm ==
    \E fo \in Orders(DeclaredFolders),
       fi \in Rotations(DeclaredFiles) \cup {Reverse(DeclaredFiles)} :
        InitWith("p", fo, fi, FALSE)

SpecPerm == InitPerm /\ [][Next]_vars

-----------------------------------------------------------------------------
(* A whole run as a function of the filesystem it starts from *)

RunStmt(f, st) ==
    IF st.op = "makedirs" THEN create_directory(f, denied, st.path)
    ELSE IF st.op = "create"
    THEN LET o == open_w(f, denied, st.path)
         IN  IF o.err # None \/ ~st.hasWrite THEN o
             ELSE write(o.fs, writeFail, st.path, st.content)
    ELSE Ok(f)

RECURSIVE Materialize(_, _, _)
Materialize(f, s, i) ==
    IF i > Len(s) THEN Ok(f)
    ELSE LET r == RunStmt(f, s[i])
         IN  IF r.err # None THEN r ELSE Materialize(r.fs, s, i + 1)

-----------------------------------------------------------------------------
(* Vocabulary of the properties *)

Ended == status \in {"done", "raised"}

Base == BaseOf(prog)

\* the declared entries of each script (the order of the statements aside)
PScript == ScriptOf("p", DeclaredFolders, DeclaredFiles)

PDirs == DirsOf(PScript)

PFiles == FilesOf(PScript)

PContent == [p \in PFiles |-> ContentOf(PScript, p)]

OauthDirs == DirsOf(OauthScript)

OauthFiles == FilesOf(OauthScript)

OauthContent == [p \in OauthFiles |-> ContentOf(OauthScript, p)]

Dirs == IF prog = "p" THEN PDirs ELSE OauthDirs

Files == IF prog = "p" THEN PFiles ELSE OauthFiles

Declared(p) == File(IF prog = "p" THEN PContent[p] ELSE OauthContent[p])

\* no declared path is occupied by a node of the other kind
NoConflict(f) ==
    /\ \A d \in Dirs \cup Prefixes(Base) : NodeAt(f, d).kind # "file"
    /\ \A p \in Files : NodeAt(f, p).kind # "dir"

\* every filesystem operation of the run is permitted
Permitted == denied = {} /\ writeFail = {} /\ NoConflict(fs0)

UnderBase(f) == { p \in DOMAIN f : IsUnder(p, Base) /\ exists(f, p) }

SuccessPrinted == \E i \in 1..Len(out) : out[i] = "created successfully"

\* a line reporting a failure; neither script has a statement printing one
FailurePrinted == \E i \in 1..Len(out) : out[i] = "failed"

-----------------------------------------------------------------------------
(* Properties *)

\* C1: where every filesystem operation is permitted a run completes, and after
\* a completed run every declared directory exists as a directory and every
\* declared file exists as a file with its declared content
C1_AllDeclaredCreated ==
    /\ status = "done" =>
        /\ \A d \in Dirs : isdir(fs, d)
        /\ \A p \in Files : fs[p] = Declared(p)
    /\ Ended /\ Permitted => status = "done"

\* a permitted first run has completed over declared files that held other
\* content, and truncated them
C1_Witness ==
    /\ status = "done" /\ Permitted /\ run = 1
    /\ \A p \in Files : fs0[p] = File("x") /\ fs[p] = File("")

\* C2: when exactly one declared file cannot be created and everything else is
\* permitted, the run is not aborted, the failure is reported and every other
\* declared file and directory has been created at the end of the run
C2_PartialFailureIsolation ==
    (/\ Ended
     /\ NoConflict(fs0) /\ writeFail = {}
     /\ \E f \in Files : denied = {f}) =>
        /\ status = "done"
        /\ FailurePrinted
        /\ \A d \in Dirs : isdir(fs, d)
        /\ \A p \in Files \ denied : fs[p] = Declared(p)

\* C3: after the creation of one directory that has declared siblings failed,
\* the failure is logged and the run still attempts every other declared
\* directory and every declared file outside the failed directory
C3_DirectoryFailureIsolation ==
    (/\ Ended /\ status = "raised"
     /\ Script[pc].op = "makedirs"
     /\ Script[pc].path # Base) =>
        /\ FailurePrinted
        /\ Dirs \subseteq called
        /\ \A p \in Files : ~IsUnder(p, Script[pc].path) => p \in attempted

\* C4: with every operation permitted, a second run leaves the filesystem as
\* the first run left it, raises no error on the directories that exist, and
\* every declared file holds its declared content
C4_Idempotent ==
    (run >= 2 /\ Ended /\ Permitted) =>
        /\ status = "done"
        /\ fs = prev
        /\ \A p \in Files : fs[p] = Declared(p)

\* a second permitted run has ended after a first run that changed the filesystem
C4_Witness ==
    /\ run = 2 /\ status = "done" /\ Permitted
    /\ prev # fs0
    /\ called = Dirs /\ attempted = Files

\* the first component of the base path that is missing cannot be created
BaseNotWritable ==
    \E a \in Prefixes(Base) :
        /\ denied = {a}
        /\ ~exists(fs0, a)
        /\ isdir(fs0, Parent(a))

\* C5: when the base path lies where the process may not write, every creation
\* is attempted and fails, each failure is logged, the run ends with a failure
\* and without the success message, and the filesystem is as before the run
C5_NoWritePermission ==
    (Ended /\ BaseNotWritable) =>
        /\ called = Dirs
        /\ attempted = Files
        /\ FailurePrinted
        /\ ~SuccessPrinted
        /\ fs = fs0

\* C6: the success message is printed exactly when no operation of the run
\* failed, and a run in which an operation failed ends by printing a failure
\* summary
C6_SummaryReflectsOutcome ==
    Ended =>
        /\ SuccessPrinted <=> exc = NoExc
        /\ exc # NoExc => FailurePrinted

\* C7: with every operation permitted, a run of p.py with the folders permuted
\* among themselves and the files among themselves ends in the filesystem the
\* declared order ends in
C7_OrderIndependent ==
    (Ended /\ Permitted) =>
        fs = Materialize(prev,
                 create_analytics_plugin_structure(base_path_p, DeclaredFolders, DeclaredFiles),
                 1).fs

\* a permitted run in another order than the declared one has ended, with a
\* nested folder created before its parent was asked for
C7_Witness ==
    /\ status = "done" /\ Permitted /\ run = 1
    /\ folders[1] = <<"src", "types">>
    /\ files # DeclaredFiles
    /\ ~exists(fs0, base_path_p)
    /\ fs # fs0

\* C8: a run touches declared paths only: an entry that is not declared keeps
\* its node, an entry that existed before keeps its kind, and from an empty
\* base path the entries under it are declared ones, all of them after a
\* completed run
C8_OnlyDeclaredPathsMutated ==
    /\ \A p \in DOMAIN fs : p \notin Dirs \cup Files => (exists(fs0, p) => fs[p] = fs0[p])
    /\ \A p \in DOMAIN fs : p \notin Dirs \cup Files \cup Prefixes(Base) => fs[p] = fs0[p]
    /\ \A p \in DOMAIN fs : exists(fs0, p) => fs[p].kind = fs0[p].kind
    /\ UnderBase(fs0) = {} => UnderBase(fs) \subseteq Dirs \cup Files
    /\ (UnderBase(fs0) = {} /\ status = "done") => UnderBase(fs) = (Dirs \cup Files) \ {Base}

\* a run over a base path holding undeclared entries has completed
C8_Witness ==
    /\ status = "done"
    /\ fs0[ExtraFile(prog)] = File("x") /\ isdir(fs0, ExtraDir(prog))
    /\ fs0[ExtraNested(prog)] = File("x")
    /\ fs # fs0

\* C9: a file is opened only after os.makedirs was called for its parent
\* directory, a nested directory is asked for only after its parent, and with
\* every operation permitted no file is opened in a directory that is missing
C9_DirectoryBeforeChildren ==
    /\ \A p \in attempted : Parent(p) \in called
    /\ \A d \in called : d # Base => Parent(d) \in called
    /\ Permitted => /\ \A p \in attempted : isdir(fs, Parent(p))
                    /\ exc.type # "FileNotFoundError"

\* a file of a nested directory has been opened in a run that started from nothing
C9_Witness ==
    /\ Permitted /\ run = 1
    /\ ~exists(fs0, Base)
    /\ \E p \in attempted : Len(Parent(p)) > Len(Base)

\* C10: at most one file is open at any time, none is open between two
\* statements, and none is open when the run has ended, by the end of the
\* script or by an error
C10_HandlesScoped ==
    /\ Cardinality(handles) <= 1
    /\ phase = "idle" => handles = {}
    /\ Ended => handles = {}

\* a write has failed and the run has ended by that error
C10_Witness ==
    /\ status = "raised"
    /\ exc.type = "OSError"
    /\ exc.path \in writeFail
    /\ handles = {}

====
